---- MODULE Spec2Model ----
(***************************************************************************)
(* A model of the RedisJSON client (src/lib/redis-json.js and the earlier  *)
(* variants of the same class under src/unnamed/): the path normalizer,    *)
(* the command dispatcher with its response normalization, the auto-create *)
(* walk and the public calls that use them, run against a model of the     *)
(* remote JSON store behind one connection.                                *)
(*                                                                         *)
(* JavaScript strings are modelled as sequences of one-character strings,  *)
(* so that split, startsWith, template literals, JSON.stringify and        *)
(* JSON.parse are computed and not assumed.                                *)
(***************************************************************************)
EXTENDS Integers, Sequences, FiniteSets, TLC

VARIABLES
    variant,            \* which source file the client is: "lib", "part_001"
    redis,              \* this.$redis: "undefined" until connect(), then "ready"
    store,              \* the remote store: the document each key holds
    internalCommands,   \* this.$internalCommands: the handle cached for a name
    queue,              \* the requests sent on the connection and not yet answered
    calls,              \* the calls made on the client, in the order they were made
    arg,                \* the input of the pure function under test (SpecPath, SpecParse)
    ret                 \* the outputs it produced so far, in order

clientVars == <<variant, redis, store, internalCommands, queue, calls>>

pureVars == <<arg, ret>>

vars == <<variant, redis, store, internalCommands, queue, calls, arg, ret>>

----------------------------------------------------------------------------
(* Bounds of the enumerated inputs. *)

MaxTextLen == 4     \* longest path text enumerated
MaxSegs == 3        \* most segments in an enumerated list path
MaxCalls == 2       \* most calls made on the client in one run
MaxReplyLen == 3    \* longest reply text enumerated
MaxElems == 3       \* most elements in an enumerated reply to an mget

----------------------------------------------------------------------------
(* Strings. *)

Digits == {"0", "1", "2", "3", "4", "5", "6", "7", "8", "9"}

StartsWith(s, c) == Len(s) > 0 /\ s[1] = c

EndsWith(s, c) == Len(s) > 0 /\ s[Len(s)] = c

\* The least index of s holding a character of cs, 0 when there is none.
IndexOfAny(s, cs) ==
    IF \E i \in 1..Len(s) : s[i] \in cs
    THEN CHOOSE i \in 1..Len(s) : s[i] \in cs /\ \A j \in 1..(i - 1) : s[j] \notin cs
    ELSE 0

AllIn(s, cs) == \A i \in 1..Len(s) : s[i] \in cs

RECURSIVE Split(_, _)
\* String.prototype.split(sep) for a one-character separator: "" gives [""].
Split(s, sep) ==
    LET i == IndexOfAny(s, {sep})
    IN  IF i = 0 THEN <<s>>
        ELSE <<SubSeq(s, 1, i - 1)>> \o Split(SubSeq(s, i + 1, Len(s)), sep)

RECURSIVE Join(_, _)
\* Array.prototype.join(sep) of an array of strings.
Join(ss, sep) ==
    IF Len(ss) = 0 THEN <<>>
    ELSE IF Len(ss) = 1 THEN ss[1]
    ELSE ss[1] \o <<sep>> \o Join(Tail(ss), sep)

RECURSIVE Flatten(_)
Flatten(ss) == IF Len(ss) = 0 THEN <<>> ELSE ss[1] \o Flatten(Tail(ss))

\* s.includes(t): t occurs in s as a contiguous run.
Includes(s, t) ==
    \E i \in 0..(Len(s) - Len(t)) : SubSeq(s, i + 1, i + Len(t)) = t

RECURSIVE Trim(_)
\* The white space Number() strips; the space is the only white space modelled.
Trim(s) ==
    IF StartsWith(s, " ") THEN Trim(Tail(s))
    ELSE IF EndsWith(s, " ") THEN Trim(SubSeq(s, 1, Len(s) - 1))
    ELSE s

----------------------------------------------------------------------------
(* isNaN(p) of JavaScript: Number(p) is NaN unless p is a numeric literal. *)

StripSign(s) == IF StartsWith(s, "-") \/ StartsWith(s, "+") THEN Tail(s) ELSE s

\* DecimalDigits, or DecimalDigits . DecimalDigits(opt), or . DecimalDigits
IsMantissa(m) ==
    LET d == IndexOfAny(m, {"."})
    IN  IF d = 0 THEN Len(m) > 0 /\ AllIn(m, Digits)
        ELSE LET int == SubSeq(m, 1, d - 1)
                 frac == SubSeq(m, d + 1, Len(m))
             IN  /\ AllIn(int, Digits)
                 /\ AllIn(frac, Digits)
                 /\ Len(int) + Len(frac) > 0

IsExponent(x) == LET u == StripSign(x) IN Len(u) > 0 /\ AllIn(u, Digits)

IsUnsignedDecimal(u) ==
    LET e == IndexOfAny(u, {"e", "E"})
    IN  IF e = 0 THEN IsMantissa(u)
        ELSE IsMantissa(SubSeq(u, 1, e - 1)) /\ IsExponent(SubSeq(u, e + 1, Len(u)))

Infinity == <<"I", "n", "f", "i", "n", "i", "t", "y">>

HexDigits == Digits \cup {"a", "b", "c", "d", "e", "f", "A", "B", "C", "D", "E", "F"}

IsRadixLiteral(t) ==
    /\ Len(t) > 2
    /\ t[1] = "0"
    /\ LET ds == SubSeq(t, 3, Len(t))
       IN  \/ t[2] \in {"x", "X"} /\ AllIn(ds, HexDigits)
           \/ t[2] \in {"b", "B"} /\ AllIn(ds, {"0", "1"})
           \/ t[2] \in {"o", "O"} /\ AllIn(ds, {"0", "1", "2", "3", "4", "5", "6", "7"})

\* Number(s) of a string is not NaN.
IsNumericString(s) ==
    LET t == Trim(s)
        u == StripSign(t)
    IN  \/ t = <<>>
        \/ u = Infinity
        \/ IsUnsignedDecimal(u)
        \/ IsRadixLiteral(t)

----------------------------------------------------------------------------
(* Paths as a caller gives them: a text, or a list of segments, each a     *)
(* string or a number (a number is held by its decimal text).              *)

TextPath(s) == [form |-> "text", s |-> s, l |-> <<>>]

ListPath(l) == [form |-> "list", s |-> <<>>, l |-> l]

StrSeg(s) == [num |-> FALSE, s |-> s]

NumSeg(s) == [num |-> TRUE, s |-> s]

StrSegs(ss) == [i \in 1..Len(ss) |-> StrSeg(ss[i])]

\* p.length === 0: a number has no length.
SegIsEmpty(p) == ~p.num /\ Len(p.s) = 0

\* isNaN(p)
isNaN(p) == IF p.num THEN FALSE ELSE ~IsNumericString(p.s)

\* `['${p}']` or `[${p}]`
BracketGroup(p) ==
    IF isNaN(p) THEN <<"[", "'">> \o p.s \o <<"'", "]">>
    ELSE <<"[">> \o p.s \o <<"]">>

RECURSIVE BracketGroupsSkipping(_)
\* A loop that passes over an empty segment and goes on with the next one.
BracketGroupsSkipping(segs) ==
    IF Len(segs) = 0 THEN <<>>
    ELSE IF SegIsEmpty(segs[1]) THEN BracketGroupsSkipping(Tail(segs))
    ELSE BracketGroup(segs[1]) \o BracketGroupsSkipping(Tail(segs))

RECURSIVE BracketGroups(_)
\* The for loop of $_pathMaker: one group per segment, up to the first empty one.
BracketGroups(segs) ==
    IF Len(segs) = 0 \/ SegIsEmpty(segs[1]) THEN <<>>
    ELSE BracketGroup(segs[1]) \o BracketGroups(Tail(segs))

RootPath == <<".">>

\* if(nPath.length === 0) nPath = '.'
OrRoot(nPath) == IF Len(nPath) = 0 THEN RootPath ELSE nPath

\* $_pathMaker of the segments of a list (or of a split text).
pathMakerOfSegs(segs) == IF Len(segs) > 0 THEN OrRoot(BracketGroups(segs)) ELSE RootPath

RECURSIVE QuotedGroups(_)
\* The for loop of part_002's $_pathMaker: every segment as `['${p}']`.
QuotedGroups(segs) ==
    IF Len(segs) = 0 \/ SegIsEmpty(segs[1]) THEN <<>>
    ELSE <<"[", "'">> \o segs[1].s \o <<"'", "]">> \o QuotedGroups(Tail(segs))

\* $_pathMaker of part_002, of the segments of a list or of a split text.
pathMakerQuoted(segs) == IF Len(segs) > 0 THEN OrRoot(QuotedGroups(segs)) ELSE RootPath

\* A text that $_pathMaker returns as it is.
IsBracketForm(s) == StartsWith(s, "[") /\ EndsWith(s, "]")

\* The segments $_pathMaker works on: path.split('.') of a text, the list itself.
Segments(path) == IF path.form = "text" THEN StrSegs(Split(path.s, ".")) ELSE path.l

\* A $_pathMaker without the pass-through of bracket-form text.
pathMakerNoPassThrough(path) == pathMakerOfSegs(Segments(path))

\* $_pathMaker
pathMaker(path) ==
    IF path.form = "text" /\ IsBracketForm(path.s) THEN path.s
    ELSE pathMakerOfSegs(Segments(path))

----------------------------------------------------------------------------
(* SpecPath: $_pathMaker applied to every path of the bounded sets, and    *)
(* applied again to its own result.                                        *)

TextChars == {"a", "1", "-", ".", "[", "]", "'"}

SeqsUpTo(S, n) == UNION {[1..k -> S] : k \in 0..n}

PathTexts == SeqsUpTo(TextChars, MaxTextLen)

PathSegs ==
    {StrSeg(<<>>), StrSeg(<<"a">>), StrSeg(<<"1">>), StrSeg(<<"-", "1">>),
     StrSeg(<<"1", ".", "5">>), StrSeg(<<"-">>), NumSeg(<<"0">>)}

PathInputs == {TextPath(s) : s \in PathTexts}
                \cup {ListPath(l) : l \in SeqsUpTo(PathSegs, MaxSegs)}

----------------------------------------------------------------------------
(* JSON values.  A value is the set of its nodes: one node per location,   *)
(* with the path of the location from the root of the value (a sequence of *)
(* keys; an array element's key is its index in decimal), the JSON type    *)
(* there, and for a scalar the text of its literal.  Two values are equal  *)
(* exactly when they are equal as JSON.                                    *)

Node(p, k, s) == [p |-> p, k |-> k, s |-> s]

Containers == {"object", "array"}

JInt(s) == {Node(<<>>, "integer", s)}

JStr(s) == {Node(<<>>, "string", s)}

JNull == {Node(<<>>, "null", <<>>)}

JBool(s) == {Node(<<>>, "boolean", s)}

JEmptyObj == {Node(<<>>, "object", <<>>)}

JEmptyArr == {Node(<<>>, "array", <<>>)}

IsPrefix(p, q) == Len(p) <= Len(q) /\ SubSeq(q, 1, Len(p)) = p

\* The nodes of v moved under the path p.
Under(p, v) == {Node(p \o n.p, n.k, n.s) : n \in v}

\* The value at path p of v (no node when v has nothing there).
Subtree(v, p) ==
    {Node(SubSeq(n.p, Len(p) + 1, Len(n.p)), n.k, n.s) : n \in {m \in v : IsPrefix(p, m.p)}}

\* v with the value w put at path p, replacing what was at or below p.
Graft(v, p, w) == {n \in v : ~IsPrefix(p, n.p)} \cup Under(p, w)

HasPath(v, p) == \E n \in v : n.p = p

KindAt(v, p) == (CHOOSE n \in v : n.p = p).k

TextAt(v, p) == (CHOOSE n \in v : n.p = p).s

ChildKeys(v, p) == {n.p[Len(p) + 1] : n \in {m \in v : IsPrefix(p, m.p) /\ Len(m.p) > Len(p)}}

\* { [key]: v }, the single-key object of the walk.
Wrap(key, v) == JEmptyObj \cup Under(<<key>>, v)

\* An object of the given members (a function from keys to values).
JObj(members) ==
    JEmptyObj \cup UNION {Under(<<key>>, members[key]) : key \in DOMAIN members}

DigitSeq == <<"0", "1", "2", "3", "4", "5", "6", "7", "8", "9">>

RECURSIVE IntToStr(_)
IntToStr(n) ==
    IF n < 10 THEN <<DigitSeq[n + 1]>>
    ELSE IntToStr(n \div 10) \o <<DigitSeq[(n % 10) + 1]>>

\* An array of the given elements (a sequence of values).
JArr(elems) ==
    JEmptyArr \cup UNION {Under(<<IntToStr(i - 1)>>, elems[i]) : i \in DOMAIN elems}

ArrLen(v, p) == Cardinality(ChildKeys(v, p))

----------------------------------------------------------------------------
(* JSON.stringify and JSON.parse over these values.  Object keys are       *)
(* written in a fixed order (JSON equality does not depend on it).         *)

CharTable ==
    <<"0", "1", "2", "3", "4", "5", "6", "7", "8", "9",
      "a", "b", "c", "d", "e", "f", "g", "h", "i", "j", "k", "l", "m",
      "n", "o", "p", "q", "r", "s", "t", "u", "v", "w", "x", "y", "z",
      "A", "B", "C", "D", "E", "F", "G", "H", "I", "J", "K", "L", "M",
      "N", "O", "P", "Q", "R", "S", "T", "U", "V", "W", "X", "Y", "Z",
      " ", "-", "+", ".", "_", "'", "[", "]", "{", "}", ":", ",", "\"">>

CharRank(c) ==
    IF \E i \in DOMAIN CharTable : CharTable[i] = c
    THEN CHOOSE i \in DOMAIN CharTable : CharTable[i] = c
    ELSE 0

RECURSIVE StrLess(_, _)
StrLess(s, t) ==
    IF Len(t) = 0 THEN FALSE
    ELSE IF Len(s) = 0 THEN TRUE
    ELSE IF s[1] = t[1] THEN StrLess(Tail(s), Tail(t))
    ELSE CharRank(s[1]) < CharRank(t[1])

RECURSIVE SortKeys(_)
SortKeys(ks) ==
    IF ks = {} THEN <<>>
    ELSE LET k == CHOOSE x \in ks : \A y \in ks \ {x} : StrLess(x, y)
         IN  <<k>> \o SortKeys(ks \ {k})

Quoted(s) == <<"\"">> \o s \o <<"\"">>

RECURSIVE stringify(_)
\* JSON.stringify(value)
stringify(v) ==
    LET k == KindAt(v, <<>>)
    IN  IF k = "object"
        THEN LET ks == SortKeys(ChildKeys(v, <<>>))
                 member(i) == Quoted(ks[i]) \o <<":">> \o stringify(Subtree(v, <<ks[i]>>))
             IN  <<"{">> \o Join([i \in 1..Len(ks) |-> member(i)], ",") \o <<"}">>
        ELSE IF k = "array"
        THEN LET n == ArrLen(v, <<>>)
                 elem(i) == stringify(Subtree(v, <<IntToStr(i - 1)>>))
             IN  <<"[">> \o Join([i \in 1..n |-> elem(i)], ",") \o <<"]">>
        ELSE IF k = "string" THEN Quoted(TextAt(v, <<>>))
        ELSE IF k = "null" THEN <<"n", "u", "l", "l">>
        ELSE TextAt(v, <<>>)

At(s, i) == IF i >= 1 /\ i <= Len(s) THEN s[i] ELSE ""

ParseFail == [ok |-> FALSE, v |-> {}, j |-> 0]

ParseOk(v, j) == [ok |-> TRUE, v |-> v, j |-> j]

\* The JSON number grammar: -?(0|[1-9][0-9]*)(.[0-9]+)?([eE][+-]?[0-9]+)?
IsJsonInt(t) ==
    LET u == IF StartsWith(t, "-") THEN Tail(t) ELSE t
    IN  Len(u) > 0 /\ AllIn(u, Digits) /\ (Len(u) = 1 \/ u[1] # "0")

IsJsonNumber(t) ==
    LET e == IndexOfAny(t, {"e", "E"})
        m == IF e = 0 THEN t ELSE SubSeq(t, 1, e - 1)
        d == IndexOfAny(m, {"."})
    IN  /\ e = 0 \/ IsExponent(SubSeq(t, e + 1, Len(t)))
        /\ IF d = 0 THEN IsJsonInt(m)
           ELSE /\ IsJsonInt(SubSeq(m, 1, d - 1))
                /\ d < Len(m)
                /\ AllIn(SubSeq(m, d + 1, Len(m)), Digits)

NumberChars == Digits \cup {"-", "+", ".", "e", "E"}

\* The index after the run of characters of cs that starts at i.
RunEnd(s, i, cs) ==
    LET rest == SubSeq(s, i, Len(s))
        stop == IndexOfAny(rest, {rest[x] : x \in DOMAIN rest} \ cs)
    IN  IF stop = 0 THEN Len(s) + 1 ELSE i + stop - 1

\* The string literal that starts at i and has its closing quote c characters
\* after the opening one.  Escapes are not modelled: a backslash fails.
StringTo(s, i, c) ==
    IF c = 0 \/ s[i + c] = "\\" THEN ParseFail
    ELSE [ok |-> TRUE, v |-> SubSeq(s, i + 1, i + c - 1), j |-> i + c + 1]

\* A string literal at i: the text between the quotes and the index after it.
ParseString(s, i) ==
    IF At(s, i) # "\"" THEN ParseFail
    ELSE StringTo(s, i, IndexOfAny(SubSeq(s, i + 1, Len(s)), {"\"", "\\"}))

Literal(s, i, word) ==
    i + Len(word) - 1 <= Len(s) /\ SubSeq(s, i, i + Len(word) - 1) = word

\* The number whose text is t and which ends before j.
NumberOf(t, j) ==
    IF IsJsonInt(t) THEN ParseOk(JInt(t), j)
    ELSE IF IsJsonNumber(t) THEN ParseOk({Node(<<>>, "number", t)}, j)
    ELSE ParseFail

NumberTo(s, i, j) == NumberOf(SubSeq(s, i, j - 1), j)

StringValue(r) == IF r.ok THEN ParseOk(JStr(r.v), r.j) ELSE ParseFail

RECURSIVE ParseValue(_, _), ParseMembers(_, _, _), ParseElems(_, _, _, _),
          MemberValue(_, _, _), NextMember(_, _, _, _), NextElem(_, _, _, _)

ParseValue(s, i) ==
    IF At(s, i) = "{"
    THEN IF At(s, i + 1) = "}" THEN ParseOk(JEmptyObj, i + 2)
         ELSE ParseMembers(s, i + 1, JEmptyObj)
    ELSE IF At(s, i) = "["
    THEN IF At(s, i + 1) = "]" THEN ParseOk(JEmptyArr, i + 2)
         ELSE ParseElems(s, i + 1, JEmptyArr, 0)
    ELSE IF At(s, i) = "\"" THEN StringValue(ParseString(s, i))
    ELSE IF At(s, i) \in Digits \cup {"-"} THEN NumberTo(s, i, RunEnd(s, i, NumberChars))
    ELSE IF Literal(s, i, <<"n", "u", "l", "l">>) THEN ParseOk(JNull, i + 4)
    ELSE IF Literal(s, i, <<"t", "r", "u", "e">>)
    THEN ParseOk(JBool(<<"t", "r", "u", "e">>), i + 4)
    ELSE IF Literal(s, i, <<"f", "a", "l", "s", "e">>)
    THEN ParseOk(JBool(<<"f", "a", "l", "s", "e">>), i + 5)
    ELSE ParseFail

\* The members of an object from i on; a repeated key replaces the earlier one.
ParseMembers(s, i, acc) == MemberValue(s, acc, ParseString(s, i))

MemberValue(s, acc, key) ==
    IF ~key.ok \/ At(s, key.j) # ":" THEN ParseFail
    ELSE NextMember(s, acc, key.v, ParseValue(s, key.j + 1))

NextMember(s, acc, key, val) ==
    IF ~val.ok THEN ParseFail
    ELSE IF At(s, val.j) = "," THEN ParseMembers(s, val.j + 1, Graft(acc, <<key>>, val.v))
    ELSE IF At(s, val.j) = "}" THEN ParseOk(Graft(acc, <<key>>, val.v), val.j + 1)
    ELSE ParseFail

\* The elements of an array from i on, the next one having index n.
ParseElems(s, i, acc, n) == NextElem(s, acc, n, ParseValue(s, i))

NextElem(s, acc, n, val) ==
    IF ~val.ok THEN ParseFail
    ELSE IF At(s, val.j) = ","
    THEN ParseElems(s, val.j + 1, Graft(acc, <<IntToStr(n)>>, val.v), n + 1)
    ELSE IF At(s, val.j) = "]" THEN ParseOk(Graft(acc, <<IntToStr(n)>>, val.v), val.j + 1)
    ELSE ParseFail

\* The whole of s must be one value.
Whole(s, r) ==
    IF r.ok /\ r.j = Len(s) + 1 THEN [ok |-> TRUE, v |-> r.v] ELSE [ok |-> FALSE, v |-> {}]

\* JSON.parse(text): ok is FALSE where JSON.parse throws a SyntaxError.
parse(s) == Whole(s, ParseValue(s, 1))

----------------------------------------------------------------------------
(* The remote store: one JSON document per key, the commands the client    *)
(* sends to it, and its replies.  A reply is what the connection hands to  *)
(* the client: a text, an integer, a value that is structured already, or  *)
(* an error with its message (held as the sequence of its words).          *)

Reply(t, s, m, v) == [t |-> t, s |-> s, m |-> m, v |-> v, e |-> <<>>]

\* A bulk or status string: a JavaScript string.
TextReply(s) == Reply("text", s, <<>>, {})

\* A reply that is a JavaScript object already: null, or an array.
StructReply(v) == Reply("struct", <<>>, <<>>, v)

NullReply == StructReply(JNull)

\* An array reply: a JavaScript array of the replies it holds.
ArrayReply(es) == [Reply("array", <<>>, <<>>, {}) EXCEPT !.e = es]

\* What an index past the end of an array reply gives: undefined.
UndefinedReply == Reply("undefined", <<>>, <<>>, {})

\* An integer reply: a JavaScript number.
IntReply(n) == Reply("int", IntToStr(n), <<>>, {})

\* An error reply: the promise of the call is rejected with an Error of this message.
ErrorReply(m) == Reply("error", <<>>, m, {})

OK == <<"O", "K">>

MsgNewAtRoot == <<"ERR", "new", "objects", "must", "be", "created", "at", "the", "root">>

MsgNonTerminal == <<"ERR", "missing", "key", "at", "non-terminal", "path", "level">>

MsgNoKeyAtLevel(n) ==
    <<"ERR", "key", "does", "not", "exist", "at", "level", DigitSeq[n + 1], "in", "path">>

MsgWrongType ==
    <<"WRONGTYPE", "Operation", "against", "a", "key", "holding", "the", "wrong",
      "kind", "of", "value">>

MsgPathType == <<"ERR", "wrong", "type", "of", "path", "value">>

MsgIndexRange == <<"ERR", "index", "out", "of", "range">>

MsgSyntax == <<"ERR", "Search", "path", "error">>

MsgJson == <<"ERR", "JSON", "parse", "error">>

MsgUnknown == <<"ERR", "unknown", "command">>

\* A key that holds something that is no JSON document.
NonJson == {Node(<<>>, "nonjson", <<>>)}

NoDoc == {}

PathFail == [ok |-> FALSE, segs |-> <<>>]

RECURSIVE PathSteps(_, _, _)
\* The segments of a path text from index i on: .name, ['name'], ["name"], [index].
PathSteps(s, i, acc) ==
    IF i > Len(s) THEN [ok |-> TRUE, segs |-> acc]
    ELSE IF s[i] = "[" /\ At(s, i + 1) \in {"'", "\""}
    THEN LET c == IndexOfAny(SubSeq(s, i + 2, Len(s)), {s[i + 1]})
         IN  IF c = 0 \/ At(s, i + 2 + c) # "]" THEN PathFail
             ELSE PathSteps(s, i + 3 + c, Append(acc, SubSeq(s, i + 2, i + c)))
    ELSE IF s[i] = "["
    THEN LET j == RunEnd(s, i + 1, Digits \cup {"-"})
         IN  IF j = i + 1 \/ At(s, j) # "]" THEN PathFail
             ELSE PathSteps(s, j + 1, Append(acc, SubSeq(s, i + 1, j - 1)))
    ELSE IF s[i] = "." \/ i = 1
    THEN LET b == IF s[i] = "." THEN i + 1 ELSE i
             stop == IndexOfAny(SubSeq(s, b, Len(s)), {".", "["})
             j == IF stop = 0 THEN Len(s) + 1 ELSE b + stop - 1
         IN  IF j = b THEN PathFail
             ELSE PathSteps(s, j, Append(acc, SubSeq(s, b, j - 1)))
    ELSE PathFail

\* The store's reading of a path argument; "." is the root.
StorePath(s) == IF s = RootPath THEN [ok |-> TRUE, segs |-> <<>>] ELSE PathSteps(s, 1, <<>>)

Front(p) == SubSeq(p, 1, Len(p) - 1)

\* The length of the longest prefix of p that exists in doc.
ExistingDepth(doc, p) ==
    CHOOSE n \in 0..Len(p) :
        /\ \A i \in 0..n : HasPath(doc, SubSeq(p, 1, i))
        /\ n = Len(p) \/ ~HasPath(doc, SubSeq(p, 1, n + 1))

Outcome(doc, reply) == [doc |-> doc, reply |-> reply]

\* The reply for a path that is not in the document.
Missing(doc, segs) == {Outcome(doc, ErrorReply(MsgNoKeyAtLevel(ExistingDepth(doc, segs))))}

\* The replies for a write below an ancestor that is not in the document.
MissingAncestor(doc, segs) ==
    {Outcome(doc, ErrorReply(m)) :
        m \in {MsgNonTerminal, MsgNoKeyAtLevel(ExistingDepth(doc, segs))}}

\* The value v written at segs of doc.
Written(doc, segs, v) == {Outcome(Graft(doc, segs, v), TextReply(OK))}

\* JSON.SET key path json on a key that holds a document or nothing: the
\* outcomes the store may produce for the path p and the value v.
StoreSet(doc, p, v) ==
    IF ~p.ok THEN {Outcome(doc, ErrorReply(MsgSyntax))}
    ELSE IF ~v.ok THEN {Outcome(doc, ErrorReply(MsgJson))}
    ELSE IF p.segs = <<>> THEN {Outcome(v.v, TextReply(OK))}
    ELSE IF doc = NoDoc THEN {Outcome(doc, ErrorReply(MsgNewAtRoot))}
    ELSE IF ~HasPath(doc, Front(p.segs)) THEN MissingAncestor(doc, p.segs)
    ELSE IF KindAt(doc, Front(p.segs)) = "object" THEN Written(doc, p.segs, v.v)
    ELSE IF KindAt(doc, Front(p.segs)) # "array"
    THEN {Outcome(doc, ErrorReply(MsgPathType))}
    ELSE IF HasPath(doc, p.segs) THEN Written(doc, p.segs, v.v)
    ELSE {Outcome(doc, ErrorReply(MsgIndexRange))}

\* JSON.GET key path
StoreGet(doc, p) ==
    IF doc = NoDoc THEN {Outcome(doc, NullReply)}
    ELSE IF ~p.ok THEN {Outcome(doc, ErrorReply(MsgSyntax))}
    ELSE IF ~HasPath(doc, p.segs) THEN Missing(doc, p.segs)
    ELSE {Outcome(doc, TextReply(stringify(Subtree(doc, p.segs))))}

KindName(k) ==
    CASE k = "object" -> <<"o", "b", "j", "e", "c", "t">>
      [] k = "array" -> <<"a", "r", "r", "a", "y">>
      [] k = "integer" -> <<"i", "n", "t", "e", "g", "e", "r">>
      [] k = "number" -> <<"n", "u", "m", "b", "e", "r">>
      [] k = "string" -> <<"s", "t", "r", "i", "n", "g">>
      [] k = "boolean" -> <<"b", "o", "o", "l", "e", "a", "n">>
      [] k = "null" -> <<"n", "u", "l", "l">>

\* JSON.TYPE key path: null for a key or a path that does not exist.  A path
\* that is no path at all is answered with null as well, or with a failure.
StoreType(doc, p) ==
    IF doc = NoDoc THEN {Outcome(doc, NullReply)}
    ELSE IF ~p.ok THEN {Outcome(doc, NullReply), Outcome(doc, ErrorReply(MsgSyntax))}
    ELSE IF ~HasPath(doc, p.segs) THEN {Outcome(doc, NullReply)}
    ELSE {Outcome(doc, TextReply(KindName(KindAt(doc, p.segs))))}

\* The reply of an array command for a path that holds no array, {} for one that does.
NoArray(doc, p) ==
    IF doc = NoDoc THEN {Outcome(doc, NullReply)}
    ELSE IF ~p.ok THEN {Outcome(doc, ErrorReply(MsgSyntax))}
    ELSE IF ~HasPath(doc, p.segs) THEN Missing(doc, p.segs)
    ELSE IF KindAt(doc, p.segs) # "array" THEN {Outcome(doc, ErrorReply(MsgPathType))}
    ELSE {}

\* JSON.ARRLEN key path, the path holding an array.
StoreArrLen(doc, p) == {Outcome(doc, IntReply(ArrLen(doc, p.segs)))}

\* The array at p without its element i: the later elements move down by one.
RemoveElem(doc, p, i) ==
    {m \in doc : ~(IsPrefix(p, m.p) /\ Len(m.p) > Len(p))}
    \cup UNION {Under(Append(p, IntToStr(IF j < i THEN j ELSE j - 1)),
                      Subtree(doc, Append(p, IntToStr(j)))) :
                    j \in (0..(ArrLen(doc, p) - 1)) \ {i}}

\* The element JSON.ARRPOP takes from an array of n elements: the one at the
\* index given, the last one without an index.
PopIndex(n, extra) ==
    IF Len(extra) > 0 /\ \E j \in 0..(n - 1) : IntToStr(j) = extra[1]
    THEN CHOOSE j \in 0..(n - 1) : IntToStr(j) = extra[1]
    ELSE n - 1

\* The array at segs loses its element i, which is the reply.
Popped(doc, segs, i) ==
    {Outcome(RemoveElem(doc, segs, i),
             TextReply(stringify(Subtree(doc, Append(segs, IntToStr(i))))))}

\* JSON.ARRPOP key path [index], the path holding an array.
StoreArrPop(doc, p, extra) ==
    IF ArrLen(doc, p.segs) = 0 THEN {Outcome(doc, NullReply)}
    ELSE Popped(doc, p.segs, PopIndex(ArrLen(doc, p.segs), extra))

Request(cmd, key, path, extra) ==
    [cmd |-> cmd, key |-> key, path |-> path, extra |-> extra, keys |-> <<key>>]

\* JSON.MGET key [key ...] path
MgetRequest(keys, path) == [Request("JSON.MGET", keys[1], path, <<>>) EXCEPT !.keys = keys]

\* What the store does with a request whose path argument reads as p.
StoreDo(doc, req, p) ==
    IF doc = NonJson THEN {Outcome(doc, ErrorReply(MsgWrongType))}
    ELSE CASE req.cmd = "JSON.SET" -> StoreSet(doc, p, parse(req.extra[1]))
           [] req.cmd = "JSON.GET" -> StoreGet(doc, p)
           [] req.cmd = "JSON.TYPE" -> StoreType(doc, p)
           [] req.cmd = "JSON.ARRLEN" /\ NoArray(doc, p) = {} -> StoreArrLen(doc, p)
           [] req.cmd = "JSON.ARRPOP" /\ NoArray(doc, p) = {} ->
                StoreArrPop(doc, p, req.extra)
           [] req.cmd \in {"JSON.ARRLEN", "JSON.ARRPOP"} /\ NoArray(doc, p) # {} ->
                NoArray(doc, p)
           [] OTHER -> {Outcome(doc, ErrorReply(MsgUnknown))}

\* What the store does with one request.
StoreExec(doc, req) == StoreDo(doc, req, StorePath(req.path))

\* The element of a JSON.MGET reply for one key: null for a key that holds no
\* JSON document and for a path that is not in the document.
MgetElem(doc, p) ==
    IF doc = NoDoc \/ doc = NonJson \/ ~HasPath(doc, p.segs) THEN NullReply
    ELSE TextReply(stringify(Subtree(doc, p.segs)))

\* JSON.MGET key [key ...] path: one element per key, in the order of the keys.
StoreMget(docs, keys, p) ==
    IF ~p.ok THEN ErrorReply(MsgSyntax)
    ELSE ArrayReply([i \in 1..Len(keys) |-> MgetElem(docs[keys[i]], p)])

\* The store after a request of one key, with its reply.
Answered(docs, key, o) == [store |-> [docs EXCEPT ![key] = o.doc], reply |-> o.reply]

\* What the store does with the oldest request: the store afterwards and the reply.
StoreAnswer(docs, req) ==
    IF req.cmd = "JSON.MGET"
    THEN {[store |-> docs, reply |-> StoreMget(docs, req.keys, StorePath(req.path))]}
    ELSE {Answered(docs, req.key, o) : o \in StoreExec(docs[req.key], req)}

----------------------------------------------------------------------------
(* The client: JavaScript values, the dispatcher and its normalization.    *)

Variants == {"lib", "part_001", "part_000", "part_002"}

\* The variants whose $_callCommand builds a promise by hand.
PromiseVariants == {"part_000", "part_002"}

Keys == {"K"}

\* The keys of the store: the key of the calls of one key, and two other ones.
StoreKeys == Keys \cup {"L", "KL"}

\* The characters of a key, each a string of length 1: what keys[i] is when
\* keys is a string.
KeyChars(key) ==
    CASE key = "K" -> <<"K">>
      [] key = "L" -> <<"L">>
      [] key = "KL" -> <<"K", "L">>

\* require('./supportedCommands'): the fixed set of remote operations.
supportedCommands ==
    {"JSON.GET", "JSON.SET", "JSON.DEL", "JSON.TYPE", "JSON.MGET", "JSON.NUMINCRBY",
     "JSON.NUMMULTBY", "JSON.STRAPPEND", "JSON.STRLEN", "JSON.ARRAPPEND",
     "JSON.ARRINDEX", "JSON.ARRINSERT", "JSON.ARRLEN", "JSON.ARRPOP", "JSON.ARRTRIM",
     "JSON.OBJKEYS", "JSON.OBJLEN", "JSON.DEBUG", "JSON.RESP"}

\* A JavaScript value a call settles with: a decoded or structured JSON value,
\* a string, or an Error with its message.
JsVal(kind, v, s, m) == [kind |-> kind, v |-> v, s |-> s, m |-> m, e |-> <<>>, o |-> <<>>]

Json(v) == JsVal("json", v, <<>>, <<>>)

Text(s) == JsVal("text", {}, s, <<>>)

Err(m) == JsVal("error", {}, <<>>, m)

Undefined == JsVal("undefined", {}, <<>>, <<>>)

\* A string the client makes itself, by its words.
Str(m) == JsVal("string", {}, <<>>, m)

\* A JavaScript array of replies, as the connection hands it over.
Arr(es) == [JsVal("array", {}, <<>>, <<>>) EXCEPT !.e = es]

\* A JavaScript object built by the client: a value for each of its property names.
Obj(o) == [JsVal("object", {}, <<>>, <<>>) EXCEPT !.o = o]

UnsupportedCommand == <<"Unsupported", "Command">>

TypeError == <<"TypeError">>

SyntaxError == <<"SyntaxError">>

\* What a reply is as a JavaScript value, undecoded.
Raw(reply) ==
    CASE reply.t = "text" -> Text(reply.s)
      [] reply.t = "int" -> Json(JInt(reply.s))
      [] reply.t = "struct" -> Json(reply.v)
      [] reply.t = "error" -> Err(reply.m)
      [] reply.t = "array" -> Arr(reply.e)
      [] reply.t = "undefined" -> Undefined

Returned(val) == [threw |-> FALSE, val |-> val]

Thrown(val) == [threw |-> TRUE, val |-> val]

\* JSON.parse(target): the argument is turned into a string first.
Decoded(r) == IF r.ok THEN Returned(Json(r.v)) ELSE Thrown(Err(SyntaxError))

JSONparse(target) == Decoded(parse(target.s))

\* A $_safetyJsonParse without the try/catch.
safetyJsonParseNoCatch(target) ==
    IF target.t \in {"struct", "array"} THEN Returned(Raw(target)) ELSE JSONparse(target)

\* $_safetyJsonParse
\* try { return JSON.parse(target) } catch(e) { return target }
TryCatch(r, target) == IF r.threw THEN Returned(Raw(target)) ELSE r

safetyJsonParse(target) ==
    IF target.t \in {"struct", "array"} THEN Returned(Raw(target))
    ELSE TryCatch(JSONparse(target), target)

\* $_callCommand after its await: an Error is thrown, anything else is normalized.
callCommandResult(reply) ==
    IF reply.t = "error" THEN Thrown(Err(reply.m)) ELSE safetyJsonParse(reply)

\* $_pathMaker of the earlier variant: the dotted form with a leading '.'.
pathMakerDotted(s) == IF ~StartsWith(s, ".") THEN <<".">> \o s ELSE s

NonTerminalPhrase == <<"non-terminal", "path", "level">>

AtRootPhrase == <<"must", "be", "created", "at", "the", "root">>

Level0Phrase == <<"at", "level", "0", "in", "path">>

----------------------------------------------------------------------------
(* Calls.  A call is one invocation of a public method (or of one of the   *)
(* $_ helpers) by a caller; it runs up to its next await in one step, and  *)
(* is resumed by the reply to the request it awaits.                       *)

Frame(path, value, opts) == [path |-> path, value |-> value, opts |-> opts]

Pending == [st |-> "pending", val |-> Undefined]

NewCall(op, key, path, value, opts, name, extra) ==
    [op |-> op, key |-> key, path |-> path, value |-> value, opts |-> opts,
     name |-> name, extra |-> extra,
     keys |-> <<key>>,                     \* the keys of an mget: $_arrayMaker(keys)
     one |-> FALSE,                        \* keys is one key, not a list
     list |-> path.l,                      \* the caller's list of segments, as it stands
     pc |-> "start",
     frame |-> Frame(path, value, opts),   \* the arguments of the set that is running
     paths |-> <<>>,                       \* the walk's list of segments
     setValue |-> {},                      \* the walk's value being built
     probes |-> 0,                         \* iterations of the walk's loop so far
     sent |-> <<>>,                        \* the requests this call sent, in order
     got |-> <<>>,                         \* the replies it received, in order
     at |-> store[key],                    \* the document of the key when the call was made
     before |-> {i \in 1..Len(calls) : calls[i].pc = "done"},  \* the calls over by then
     res |-> Pending]

\* The promise of the call is fulfilled, rejected, or left pending for ever.
Fulfil(call, val) == [call EXCEPT !.pc = "done", !.res = [st |-> "fulfilled", val |-> val]]

Reject(call, val) == [call EXCEPT !.pc = "done", !.res = [st |-> "rejected", val |-> val]]

NeverSettle(call) == [call EXCEPT !.pc = "done", !.res = [st |-> "never", val |-> Undefined]]

\* What a step of a call does: the call afterwards and the requests it sent.
Eff(call, reqs) == [call |-> call, reqs |-> reqs]

Send(call, pc, req) == Eff([call EXCEPT !.pc = pc, !.sent = Append(@, req)], <<req>>)

\* $_callCommand up to its await, without the check of the name.
callCommandUnchecked(call, pc, command, req) ==
    IF redis = "undefined" THEN Eff(Reject(call, Err(TypeError)), <<>>)
    ELSE Send(call, pc, req)

\* $_callCommand up to its await: the check of the name, the handle, the request.
callCommand(call, pc, command, req) ==
    IF command \notin supportedCommands THEN Eff(Reject(call, Err(UnsupportedCommand)), <<>>)
    ELSE IF redis = "undefined" THEN Eff(Reject(call, Err(TypeError)), <<>>)
    ELSE Send(call, pc, req)

\* $_getInternalCommand and cmd.string.call of the earlier variant: no handle
\* (undefined) for an unsupported name, and the call on it throws.
getInternalCommand(call, pc, command, req) ==
    IF command \notin supportedCommands \/ redis = "undefined"
    THEN Eff(Reject(call, Err(TypeError)), <<>>)
    ELSE Send(call, pc, req)

\* $_callCommand of part_000 and part_002 up to the call on the connection:
\* the promise is rejected with a string for an unsupported name, and with
\* what the executor throws when there is no connection.
callCommandPromise(call, pc, command, req) ==
    IF command \notin supportedCommands THEN Eff(Reject(call, Str(UnsupportedCommand)), <<>>)
    ELSE IF redis = "undefined" THEN Eff(Reject(call, Err(TypeError)), <<>>)
    ELSE Send(call, pc, req)

\* The dispatch of a request by the variant's code.
Dispatch(call, pc, command, req) ==
    CASE variant = "lib" -> callCommand(call, pc, command, req)
      [] variant = "part_001" -> getInternalCommand(call, pc, command, req)
      [] OTHER -> callCommandPromise(call, pc, command, req)

\* The path argument a method sends: $_pathMaker(path).  The earlier variant
\* calls path.startsWith, which a list does not have.
PathArg(path) ==
    CASE variant = "lib" -> [ok |-> TRUE, s |-> pathMaker(path)]
      [] variant = "part_002" -> [ok |-> TRUE, s |-> pathMakerQuoted(Segments(path))]
      [] OTHER -> IF path.form = "text" THEN [ok |-> TRUE, s |-> pathMakerDotted(path.s)]
                  ELSE [ok |-> FALSE, s |-> <<>>]

\* set with the path argument p in hand.  In part_000 and part_002 a failure
\* of $_callCommand comes to the .catch handler of set, where opts.recursive of
\* a missing opts throws: the promise of set is then never settled.
setWith(call, pc, f, p) ==
    IF ~p.ok THEN Eff(Reject(call, Err(TypeError)), <<>>)
    ELSE IF variant \in PromiseVariants /\ redis = "undefined" /\ f.opts = "undefined"
    THEN Eff(NeverSettle([call EXCEPT !.frame = f]), <<>>)
    ELSE Dispatch([call EXCEPT !.frame = IF variant = "part_001"
                                         THEN [f EXCEPT !.path = TextPath(p.s)]
                                         ELSE f],
                  pc, "JSON.SET",
                  Request("JSON.SET", call.key, p.s, <<stringify(f.value)>>))

\* set(key, path, value, opts) up to its await; f holds its arguments.  The
\* earlier variant overwrites its path parameter with $_pathMaker(path).
set(call, pc, f) == setWith(call, pc, f, PathArg(f.path))

\* A method that sends only the key and the path, with the path argument p in hand.
sendWith(call, pc, command, p) ==
    IF ~p.ok THEN Eff(Reject(call, Err(TypeError)), <<>>)
    ELSE Dispatch(call, pc, command, Request(command, call.key, p.s, <<>>))

\* type(key, path) up to its await.
type(call, pc, path) == sendWith(call, pc, "JSON.TYPE", PathArg(path))

\* get(key, path) up to its await.
get(call, pc, path) == sendWith(call, pc, "JSON.GET", PathArg(path))

\* The segment paths.pop() removes, as the property name it becomes.
Last(paths) == paths[Len(paths)].s

\* paths.join('.')
Joined(paths) == Join([i \in 1..Len(paths) |-> paths[i].s], ".")

\* let paths = path: in lib the walk's list is the caller's list itself when
\* the path is a list; a text is split into a list of the walk's own, as the
\* earlier variants do with every path.
Aliased(call) == variant = "lib" /\ call.path.form = "list"

\* The caller's list when the walk's list has become paths.
CallerList(call, paths) == IF Aliased(call) THEN paths ELSE call.list

\* A pop that drops the segment without wrapping the value in it.
PopWithoutWrap(call) ==
    [call EXCEPT !.paths = Front(call.paths),
                 !.list = CallerList(call, Front(call.paths))]

\* A pop that names the wrapper after the first segment of the list.
PopWrappingFirst(call) ==
    [call EXCEPT !.setValue = Wrap(call.paths[1].s, call.setValue),
                 !.paths = Front(call.paths),
                 !.list = CallerList(call, Front(call.paths))]

\* setValue = {[paths.pop()]: setValue}
Pop(call) ==
    [call EXCEPT !.setValue = Wrap(Last(call.paths), call.setValue),
                 !.paths = Front(call.paths),
                 !.list = CallerList(call, Front(call.paths))]

\* A corrective write made at the path the walk was given.
WritePathOriginal(call) == TextPath(pathMaker(call.path))

\* The path of the corrective write: $_pathMaker of what is left of paths.
WritePath(call) ==
    CASE variant = "lib" -> TextPath(pathMaker(ListPath(call.paths)))
      [] variant = "part_002" -> TextPath(pathMakerQuoted(StrSegs(Split(Joined(call.paths), "."))))
      [] OTHER -> TextPath(pathMakerDotted(Joined(call.paths)))

\* A corrective write that asks for auto-create again.
WalkWriteRecursive(call) == set(call, "await_fix", Frame(WritePath(call), call.setValue, "true"))

\* The end of $_findAndCreateParentObject: the corrective write at what is left
\* of paths, with {recursive: false} (lib, part_002) or without opts
\* (part_001, part_000).
WalkWrite(call) ==
    set(call, "await_fix",
        Frame(WritePath(call), call.setValue,
              IF variant \in {"lib", "part_002"} THEN "false" ELSE "undefined"))

\* The walk in the iteration that probes: lib probes before it pops the
\* segment; part_001 pops, then probes.
Iteration(call) ==
    IF variant = "lib" THEN [call EXCEPT !.probes = @ + 1]
    ELSE [Pop(call) EXCEPT !.probes = @ + 1]

\* A probe of the whole list, its last segment included.
ProbePathWhole(call) == WritePath(call)

\* The path of the probe: lib takes the list without its last segment.
ProbePath(call) ==
    IF variant = "lib" THEN TextPath(pathMaker(ListPath(Front(call.paths))))
    ELSE WritePath(call)

\* The loop of $_findAndCreateParentObject from its test to the next await.
WalkLoop(call) ==
    IF Len(call.paths) = 0 THEN WalkWrite(call)
    ELSE type(Iteration(call), "await_probe", ProbePath(Iteration(call)))

\* The list the walk works on: lib takes the list given (or splits the text);
\* part_001 drops the empty segment in front of the leading '.'.
WalkPaths(path) ==
    CASE variant = "lib" -> Segments(path)
      [] variant = "part_001" -> Tail(StrSegs(Split(path.s, ".")))
      [] OTHER -> StrSegs(Split(path.s, "."))

\* The start of $_findAndCreateParentObject(key, path, value).
findAndCreateParentObject(call, path, value) ==
    IF variant # "lib" /\ path.form # "text" THEN Eff(Reject(call, Err(TypeError)), <<>>)
    ELSE WalkLoop([call EXCEPT !.paths = WalkPaths(path), !.setValue = value])

\* A walk that goes on to the root whatever its probe yields.
WalkOnProbeIgnoringType(call, r) ==
    IF r.threw THEN Eff(Reject(call, r.val), <<>>)
    ELSE WalkLoop(IF variant = "lib" THEN Pop(call) ELSE call)

\* A walk that does not pop the segment when its probe yields null.
WalkOnProbeWithoutPop(call, r) ==
    IF r.threw THEN Eff(Reject(call, r.val), <<>>)
    ELSE IF r.val # Json(JNull) THEN WalkWrite(call)
    ELSE WalkLoop(call)

\* The walk resumed by what its probe yields: a failure ends it, a type that
\* is not null ends the loop, null lets it go on (lib pops the segment now).
WalkOnProbe(call, r) ==
    IF r.threw THEN Eff(Reject(call, r.val), <<>>)
    ELSE IF r.val # Json(JNull) THEN WalkWrite(call)
    ELSE WalkLoop(IF variant = "lib" THEN Pop(call) ELSE call)

\* The test of set on the message of a failed write: is the walk to be run?
Eligible(opts, message) ==
    IF variant # "part_001"
    THEN /\ opts = "true"
         /\ \/ Includes(message, NonTerminalPhrase)
            \/ Includes(message, AtRootPhrase)
            \/ Includes(message, Level0Phrase)
    ELSE \/ opts = "true" /\ Includes(message, NonTerminalPhrase)
         \/ Includes(message, AtRootPhrase)

\* What set does with a failure it has in hand: opts.recursive of a missing
\* opts throws; the walk is run, or the failure is passed on.
SetOnError(call, message) ==
    IF call.frame.opts = "undefined"
    THEN IF variant = "lib" THEN Eff(Reject(call, Err(TypeError)), <<>>)
         ELSE Eff(NeverSettle(call), <<>>)
    ELSE IF Eligible(call.frame.opts, message)
    THEN findAndCreateParentObject(call, call.frame.path, call.frame.value)
    ELSE Eff(Reject(call, Err(message)), <<>>)

\* The promise settles with what was returned or thrown.
Settle(call, r) ==
    IF r.threw THEN Eff(Reject(call, r.val), <<>>) ELSE Eff(Fulfil(call, r.val), <<>>)

\* A set of lib that runs the walk on any failure of a recursive write.
LibSetWalkOnAnyError(call, r) ==
    IF r.threw /\ call.frame.opts = "true"
    THEN findAndCreateParentObject(call, call.frame.path, call.frame.value)
    ELSE Settle(call, r)

\* set of lib resumed by what $_callCommand yields: the await throws its
\* failure; the test on r runs only for a value that was returned.
LibSetOnReply(call, r) ==
    IF ~r.threw /\ r.val.kind = "error" THEN SetOnError(call, r.val.m)
    ELSE Settle(call, r)

\* set of part_001 resumed: .then(resolve), or the .catch handler.
Part001SetOnReply(call, r) ==
    IF r.threw THEN SetOnError(call, r.val.m) ELSE Settle(call, r)

SetOnReply(call, r) ==
    IF variant = "lib" THEN LibSetOnReply(call, r) ELSE Part001SetOnReply(call, r)

\* What the promise of the earlier variant's command yields to the method:
\* get decodes the buffer with JSON.parse, the others pass the reply on.
Part001Result(call, reply) ==
    IF reply.t = "error" THEN Thrown(Err(reply.m))
    ELSE IF call.op = "get" /\ reply.t # "struct" THEN JSONparse(reply)
    ELSE Returned(Raw(reply))

\* What the await of the call yields for the reply.
Awaited(call, reply) ==
    IF variant = "part_001" THEN Part001Result(call, reply) ELSE callCommandResult(reply)

\* mget(keys, path) up to its await: $_arrayMaker(keys) and the path are the arguments.
mget(call, pc, keys, path) ==
    callCommand(call, pc, "JSON.MGET", MgetRequest(keys, pathMaker(path)))

\* An r[i] that is the first element whatever the index.
ElemAtFirst(es, i) == IF 0 < Len(es) THEN es[1] ELSE UndefinedReply

\* r[i] of an array (i counts from 0): undefined past its end.
ElemAt(es, i) == IF i < Len(es) THEN es[i + 1] ELSE UndefinedReply

\* The greatest index (from 0) at which the key stands in keys: the assignment
\* to json[keys[i]] that is made last.
LastIndexOf(keys, k) ==
    (CHOOSE i \in 1..Len(keys) : keys[i] = k /\ \A j \in (i + 1)..Len(keys) : keys[j] # k) - 1

\* for(let i=0; i<keys.length; i++) json[keys[i]] = this.$_safetyJsonParse(r[i])
MgetJson(keys, es) ==
    Obj([k \in {keys[i] : i \in 1..Len(keys)} |->
            safetyJsonParse(ElemAt(es, LastIndexOf(keys, k))).val])

\* An mget that fails as a whole when an element of the reply does not decode.
mgetResultStrict(keys, r) ==
    IF r.threw THEN r
    ELSE IF r.val.kind # "array" THEN Thrown(Err(TypeError))
    ELSE IF \E i \in 0..(Len(keys) - 1) : safetyJsonParseNoCatch(ElemAt(r.val.e, i)).threw
         THEN Thrown(Err(SyntaxError))
    ELSE Returned(MgetJson(keys, r.val.e))

\* keys as the for loop of mget reads it, by keys.length and keys[i]: the
\* elements of a list, the characters of a string.
LoopKeys(call) == IF call.one THEN KeyChars(call.keys[1]) ELSE call.keys

\* mget from its await on: r[i] of null throws.
mgetResult(keys, r) ==
    IF r.threw THEN r
    ELSE IF r.val.kind = "array" THEN Returned(MgetJson(keys, r.val.e))
    ELSE Thrown(Err(TypeError))

\* The call goes on with what its await yielded.
Continue(call, r) ==
    CASE call.pc = "await_probe" -> WalkOnProbe(call, r)
      [] call.pc \in {"await_set", "await_fix"} -> SetOnReply(call, r)
      [] call.pc = "await_mget" -> Settle(call, mgetResult(LoopKeys(call), r))
      [] call.pc = "await" -> Settle(call, r)

\* The call resumed by the reply to the request it awaits.
Resume(call, reply) == Continue(call, Awaited(call, reply))

----------------------------------------------------------------------------
(* The inputs the callers draw from. *)

Seg_a == <<"a">>

Seg_b == <<"b">>

Seg_c == <<"c">>

Seg_x == <<"x">>

Seg_arr == <<"a", "r", "r">>

FortyTwo == JInt(<<"4", "2">>)

One == JInt(<<"1">>)

Two == JInt(<<"2">>)

Path_abc == ListPath(StrSegs(<<Seg_a, Seg_b, Seg_c>>))

Path_a_b == TextPath(<<"a", ".", "b">>)

Path_a_c == TextPath(<<"a", ".", "c">>)

Path_a_b_c == TextPath(<<"a", ".", "b", ".", "c">>)

Path_a == TextPath(Seg_a)

Path_arr == TextPath(Seg_arr)

Doc_a == Wrap(Seg_a, JEmptyObj)

Doc_arr == JObj([k \in {Seg_arr, Seg_x} |-> IF k = Seg_arr THEN JArr(<<One, Two>>) ELSE One])

InitDocs == {NoDoc, Doc_a, Doc_arr, NonJson}

Doc_a42 == Wrap(Seg_a, FortyTwo)

\* The documents the other key may hold at the start.
OtherDocs == {NoDoc, Doc_a42}

MgetKeys == {<<"K">>, <<"K", "L">>, <<"L", "K", "L">>}

MgetPaths == {Path_a}

\* The keys an mget is given on their own.
MgetSingleKeys == {"K", "KL"}

SetPaths == {Path_abc, Path_a_b, Path_a_c}

SetValues == {FortyTwo}

SetOpts == {"undefined", "true", "false"}

GetPaths == {Path_a_b_c}

TypePaths == {Path_a}

ArrPaths == {Path_arr}

ArrIndexes == {<<>>, <<<<"0">>>>}

CommandNames == {"JSON.FOO", "JSON.ARRPOP"}

\* The cache of handles of a new client: no name has one.
NoHandles == [n \in {} |-> 0]

\* The handle createBuiltinCommand makes: handles are told apart by the order
\* in which they were made.
NewHandle(cache) ==
    IF DOMAIN cache = {} THEN 1
    ELSE 1 + CHOOSE h \in {cache[n] : n \in DOMAIN cache} :
                 \A n \in DOMAIN cache : cache[n] <= h

\* The cache with a handle for the name.
Cached(cache, command) ==
    [n \in DOMAIN cache \cup {command} |-> IF n = command THEN NewHandle(cache) ELSE cache[n]]

\* A lookup that makes a new handle for the name each time.
HandleMadeAnew(cache, command) == Cached(cache, command)

\* let cmd = this.$internalCommands[command]
\* if(!cmd) this.$internalCommands[command] = cmd = this.$redis.createBuiltinCommand(command)
Handle(cache, command) ==
    IF command \in DOMAIN cache THEN cache ELSE Cached(cache, command)

----------------------------------------------------------------------------
(* The actions. *)

Init ==
    /\ variant \in Variants
    /\ redis = "undefined"
    /\ store \in {[k \in StoreKeys |-> IF k \in Keys THEN d ELSE o] :
                     d \in InitDocs, o \in OtherDocs}
    /\ internalCommands = NoHandles
    /\ queue = <<>>
    /\ calls = <<>>
    /\ arg = <<>>
    /\ ret = <<>>

\* The step of call number c is done: its record, the requests it sent (to the
\* end of rest, the requests still unanswered), and the handles it created.
Apply(c, eff, rest) ==
    /\ calls' = IF c > Len(calls) THEN Append(calls, eff.call)
                ELSE [calls EXCEPT ![c] = eff.call]
    /\ queue' = rest \o [i \in 1..Len(eff.reqs) |-> [call |-> c, req |-> eff.reqs[i]]]
    /\ internalCommands' = IF eff.reqs = <<>> THEN internalCommands
                           ELSE Handle(internalCommands, eff.reqs[1].cmd)

\* A caller makes a call: it runs up to its first await.
Begin(eff) ==
    /\ Len(calls) < MaxCalls
    /\ Apply(Len(calls) + 1, eff, queue)
    /\ UNCHANGED <<variant, redis, store, arg, ret>>

\* connect(): the connection is ready.
connect ==
    /\ redis = "undefined"
    /\ redis' = "ready"
    /\ UNCHANGED <<variant, store, internalCommands, queue, calls, arg, ret>>

CallSet ==
    \E key \in Keys, path \in SetPaths, value \in SetValues, opts \in SetOpts :
        Begin(set(NewCall("set", key, path, value, opts, "", <<>>), "await_set",
                  Frame(path, value, opts)))

CallGet ==
    /\ variant \notin PromiseVariants
    /\ \E key \in Keys, path \in GetPaths :
           Begin(get(NewCall("get", key, path, {}, "undefined", "", <<>>), "await", path))

CallType ==
    \E key \in Keys, path \in TypePaths :
        Begin(type(NewCall("type", key, path, {}, "undefined", "", <<>>), "await", path))

\* arrpop(key, path, index): the index is pushed when it is given.
CallArrpop ==
    /\ variant = "lib"
    /\ \E key \in Keys, path \in ArrPaths, index \in ArrIndexes :
        LET call == NewCall("arrpop", key, path, {}, "undefined", "", index)
        IN  Begin(callCommand(call, "await", "JSON.ARRLEN",
                              Request("JSON.ARRLEN", key, pathMaker(path), index)))

\* $_findAndCreateParentObject(key, path, value) called on its own.
CallFindAndCreateParentObject ==
    /\ variant = "lib"
    /\ \E key \in Keys, path \in SetPaths, value \in SetValues :
        Begin(findAndCreateParentObject(
                  NewCall("walk", key, path, value, "undefined", "", <<>>), path, value))

\* $_callCommand(command, args) called on its own.
CallCommand ==
    /\ variant = "lib"
    /\ \E key \in Keys, command \in CommandNames, path \in ArrPaths :
        LET call == NewCall("call", key, path, {}, "undefined", command, <<>>)
        IN  Begin(callCommand(call, "await", command,
                              Request(command, key, pathMaker(path), <<>>)))

\* mget(keys, path) with a list of keys.
CallMget ==
    /\ variant = "lib"
    /\ \E keys \in MgetKeys, path \in MgetPaths :
        Begin(mget([NewCall("mget", keys[1], path, {}, "undefined", "", <<>>)
                       EXCEPT !.keys = keys],
                   "await_mget", keys, path))

\* mget(key, path) with one key that is not in a list: $_arrayMaker makes the
\* list of the arguments.
CallMgetKey ==
    /\ variant = "lib"
    /\ \E key \in MgetSingleKeys, path \in MgetPaths :
        Begin(mget([NewCall("mget", key, path, {}, "undefined", "", <<>>)
                       EXCEPT !.one = TRUE],
                   "await_mget", <<key>>, path))

\* The store answers the oldest request, and the call that awaits it runs on
\* to its next await.
Answer ==
    /\ Len(queue) > 0
    /\ \E o \in StoreAnswer(store, Head(queue).req) :
           /\ store' = o.store
           /\ Apply(Head(queue).call,
                    Resume([calls[Head(queue).call] EXCEPT !.got = Append(@, o.reply)],
                           o.reply),
                    Tail(queue))
    /\ UNCHANGED <<variant, redis, arg, ret>>

Next ==
    \/ connect
    \/ CallSet
    \/ CallGet
    \/ CallType
    \/ CallArrpop
    \/ CallFindAndCreateParentObject
    \/ CallCommand
    \/ CallMget
    \/ CallMgetKey
    \/ Answer

Spec == Init /\ [][Next]_vars

----------------------------------------------------------------------------
(* SpecPath: $_pathMaker applied to a path, and again to its own result.   *)

PathInit ==
    /\ arg \in PathInputs
    /\ ret = <<>>
    /\ variant = "lib"
    /\ redis = "undefined"
    /\ store = [k \in StoreKeys |-> NoDoc]
    /\ internalCommands = NoHandles
    /\ queue = <<>>
    /\ calls = <<>>

ApplyPathMaker ==
    /\ Len(ret) = 0
    /\ ret' = <<pathMaker(arg)>>
    /\ UNCHANGED <<arg, variant, redis, store, internalCommands, queue, calls>>

ApplyPathMakerAgain ==
    /\ Len(ret) = 1
    /\ ret' = Append(ret, pathMaker(TextPath(ret[1])))
    /\ UNCHANGED <<arg, variant, redis, store, internalCommands, queue, calls>>

PathNext == ApplyPathMaker \/ ApplyPathMakerAgain

SpecPath == PathInit /\ [][PathNext]_vars

----------------------------------------------------------------------------
(* SpecParse: $_safetyJsonParse and the end of $_callCommand applied to    *)
(* every reply of the bounded sets.                                        *)

ReplyChars == {"[", "]", "{", "}", "\"", ":", ",", "a", "1"}

ReplyTexts ==
    SeqsUpTo(ReplyChars, MaxReplyLen)
        \cup {OK, <<"n", "u", "l", "l">>, <<"t", "r", "u", "e">>, <<"-", "1">>}

ReplyInputs ==
    {TextReply(s) : s \in ReplyTexts}
        \cup {StructReply(v) : v \in {JNull, JEmptyArr, JArr(<<One, Two>>)}}
        \cup {IntReply(n) : n \in 0..2}
        \cup {ErrorReply(m) : m \in {MsgWrongType, MsgNewAtRoot}}

Applied(op, r) == [op |-> op, r |-> r]

ParseInit ==
    /\ arg \in ReplyInputs
    /\ ret = <<>>
    /\ variant = "lib"
    /\ redis = "undefined"
    /\ store = [k \in StoreKeys |-> NoDoc]
    /\ internalCommands = NoHandles
    /\ queue = <<>>
    /\ calls = <<>>

\* $_safetyJsonParse(r) of a response that came without a failure.
ApplySafetyJsonParse ==
    /\ Len(ret) = 0
    /\ arg.t # "error"
    /\ ret' = <<Applied("$_safetyJsonParse", safetyJsonParse(arg))>>
    /\ UNCHANGED <<arg, variant, redis, store, internalCommands, queue, calls>>

\* $_callCommand from its await on.
ApplyCallCommand ==
    /\ Len(ret) = 0
    /\ ret' = <<Applied("$_callCommand", callCommandResult(arg))>>
    /\ UNCHANGED <<arg, variant, redis, store, internalCommands, queue, calls>>

ParseNext == ApplySafetyJsonParse \/ ApplyCallCommand

SpecParse == ParseInit /\ [][ParseNext]_vars

----------------------------------------------------------------------------
(* SpecMget: mget from its await on, applied to every list of keys and     *)
(* every reply of the bounded sets.                                        *)

\* The elements of a reply: null, texts that are JSON and one that is not.
MgetElems ==
    {NullReply, TextReply(<<"4", "2">>), TextReply(<<"[", "1", "]">>), TextReply(<<"{", "a">>)}

MgetReplies ==
    {ArrayReply(es) : es \in SeqsUpTo(MgetElems, MaxElems)}
        \cup {ErrorReply(m) : m \in {MsgWrongType, MsgSyntax}}

MgetInputs == {[keys |-> ks, reply |-> r] : ks \in MgetKeys, r \in MgetReplies}

MgetInit ==
    /\ arg \in MgetInputs
    /\ ret = <<>>
    /\ variant = "lib"
    /\ redis = "undefined"
    /\ store = [k \in StoreKeys |-> NoDoc]
    /\ internalCommands = NoHandles
    /\ queue = <<>>
    /\ calls = <<>>

\* mget(keys, path) once the connection handed over the reply.
ApplyMget ==
    /\ Len(ret) = 0
    /\ ret' = <<Applied("mget", mgetResult(arg.keys, callCommandResult(arg.reply)))>>
    /\ UNCHANGED <<arg, variant, redis, store, internalCommands, queue, calls>>

MgetNext == ApplyMget

SpecMget == MgetInit /\ [][MgetNext]_vars

----------------------------------------------------------------------------
(* SpecAlone: one call of set (with auto-create asked for) or of           *)
(* $_findAndCreateParentObject, made alone on a key whose document has     *)
(* other members beside the path that is written.                          *)

Doc_ax == Wrap(Seg_a, Wrap(Seg_x, One))

Doc_anull == JObj([k \in {Seg_a, Seg_x} |-> IF k = Seg_a THEN JNull ELSE One])

AloneDocs == {NoDoc, Doc_ax, Doc_anull, Doc_arr}

Path_ab == ListPath(StrSegs(<<Seg_a, Seg_b>>))

\* a.b as a dotted text, as a list and as a bracket-form text; a.b.c.
AlonePaths ==
    {Path_a_b, Path_ab, TextPath(<<"[", "'", "a", "'", "]", "[", "'", "b", "'", "]">>),
     Path_a_b_c}

AloneInit ==
    /\ variant \in Variants
    /\ redis = "undefined"
    /\ store \in {[k \in StoreKeys |-> IF k \in Keys THEN d ELSE NoDoc] : d \in AloneDocs}
    /\ internalCommands = NoHandles
    /\ queue = <<>>
    /\ calls = <<>>
    /\ arg = <<>>
    /\ ret = <<>>

\* set(key, path, value, {recursive: true}), the only call made.
AloneSet ==
    /\ calls = <<>>
    /\ \E key \in Keys, path \in AlonePaths, value \in SetValues :
           Begin(set(NewCall("set", key, path, value, "true", "", <<>>), "await_set",
                     Frame(path, value, "true")))

\* $_findAndCreateParentObject(key, path, value), the only call made.
AloneWalk ==
    /\ calls = <<>>
    /\ variant = "lib"
    /\ \E key \in Keys, path \in AlonePaths, value \in SetValues :
           Begin(findAndCreateParentObject(
                     NewCall("walk", key, path, value, "undefined", "", <<>>), path, value))

AloneNext ==
    \/ connect
    \/ AloneSet
    \/ AloneWalk
    \/ Answer

SpecAlone == AloneInit /\ [][AloneNext]_vars

----------------------------------------------------------------------------
(* The properties.  What they speak about: the calls made so far, with the *)
(* requests each sent and the replies each received.                       *)

Doc_abc42 == Wrap(Seg_a, Wrap(Seg_b, Wrap(Seg_c, FortyTwo)))

Doc_ab42 == Wrap(Seg_a, Wrap(Seg_b, FortyTwo))

Doc_ac42 == Wrap(Seg_a, Wrap(Seg_c, FortyTwo))

Doc_ab42_ac42 == Wrap(Seg_a, JObj([k \in {Seg_b, Seg_c} |-> FortyTwo]))

\* ['a'] and ['a']['b'] as the store receives them.
Arg_a == <<"[", "'", "a", "'", "]">>

Arg_a_b == <<"[", "'", "a", "'", "]", "[", "'", "b", "'", "]">>

\* {"c":42}
Json_c42 == <<"{", "\"", "c", "\"", ":", "4", "2", "}">>

Writes(c) == SelectSeq(c.sent, LAMBDA q : q.cmd = "JSON.SET")

Probes(c) == SelectSeq(c.sent, LAMBDA q : q.cmd = "JSON.TYPE")

Fulfilled(c, val) == c.pc = "done" /\ c.res = [st |-> "fulfilled", val |-> val]

Rejected(c, val) == c.pc = "done" /\ c.res = [st |-> "rejected", val |-> val]

\* The first reply the call received is a failure whose message holds one of the phrases.
FirstFailed(c, phrases) ==
    /\ Len(c.got) >= 1
    /\ c.got[1].t = "error"
    /\ \E ph \in phrases : Includes(c.got[1].m, ph)

\* The first reply the call received is a failure whose message holds none of the phrases.
FirstFailedOtherwise(c, phrases) ==
    /\ Len(c.got) >= 1
    /\ c.got[1].t = "error"
    /\ \A ph \in phrases : ~Includes(c.got[1].m, ph)

\* set(K, [a,b,c], 42, {recursive: true}) of lib on a key without a document,
\* whose direct write the store failed for the missing ancestors.
AutoCreateSet(c) ==
    /\ variant = "lib"
    /\ c.op = "set" /\ c.path = Path_abc /\ c.value = FortyTwo /\ c.opts = "true"
    /\ c.at = NoDoc
    /\ FirstFailed(c, {AtRootPhrase, NonTerminalPhrase})

\* C1: in lib, set(K, [a,b,c], 42, {recursive: true}) on a key without a document,
\* whose direct write fails for the missing ancestors, completes successfully and
\* leaves K holding {a:{b:{c:42}}}; a get(K, 'a.b.c') made after it returns 42.
C1_EndToEndAutoCreate ==
    \A i \in 1..Len(calls) :
        AutoCreateSet(calls[i]) =>
            /\ calls[i].pc = "done" /\ calls[i].res.st = "fulfilled"
            /\ Len(calls) = 1 => store[calls[i].key] = Doc_abc42
            /\ \A j \in 1..Len(calls) :
                   (/\ calls[j].op = "get" /\ calls[j].path = Path_a_b_c
                    /\ i \in calls[j].before
                    /\ calls[j].pc = "done" /\ calls[j].sent # <<>>)
                       => Fulfilled(calls[j], Json(FortyTwo))

\* The walk of lib for [a,b,c] and 42, made alone on a key that holds {a:{}},
\* has run to its end.
AnchorWalk(c) ==
    /\ variant = "lib"
    /\ c.op = "walk" /\ c.path = Path_abc /\ c.value = FortyTwo
    /\ c.at = Doc_a
    /\ Len(calls) = 1
    /\ c.sent # <<>>
    /\ c.pc = "done"

OptOutSet(c) ==
    /\ c.op = "set" /\ c.opts = "false"
    /\ FirstFailed(c, {AtRootPhrase, NonTerminalPhrase, Level0Phrase})

\* C3: in every variant, a set made with opts.recursive not true ({recursive: false})
\* whose direct write fails for missing ancestors fails with that failure, sends no
\* JSON.TYPE probe and no second JSON.SET, and leaves the document as it was.
C3_AutoCreateIsOptIn ==
    \A i \in 1..Len(calls) :
        OptOutSet(calls[i]) =>
            /\ Rejected(calls[i], Err(calls[i].got[1].m))
            /\ Len(calls[i].sent) = 1
            /\ Len(calls) = 1 => store[calls[i].key] = calls[i].at

\* A set of lib made with {recursive: true} whose direct write failed with a
\* message that holds none of the three phrases.
OtherFailureSet(c) ==
    /\ variant = "lib"
    /\ c.op = "set" /\ c.opts = "true"
    /\ FirstFailedOtherwise(c, {NonTerminalPhrase, AtRootPhrase, Level0Phrase})

\* C4: in set of lib with {recursive: true}, a failure of the direct write whose
\* message holds none of the three phrases is passed to the caller as it is, and
\* the call sends no probe and no corrective write.
C4_OtherFailurePropagates ==
    \A i \in 1..Len(calls) :
        OtherFailureSet(calls[i]) =>
            /\ Rejected(calls[i], Err(calls[i].got[1].m))
            /\ calls[i].got = <<ErrorReply(calls[i].got[1].m)>>
            /\ Len(calls[i].sent) = 1

C4_Witness ==
    \E i \in 1..Len(calls) :
        /\ OtherFailureSet(calls[i])
        /\ Rejected(calls[i], Err(MsgWrongType))

\* Two walks of lib, for a.b and for a.c, both made on a key without a document,
\* have both succeeded.
RacingWalks ==
    /\ variant = "lib"
    /\ Len(calls) = 2
    /\ \A i \in 1..2 :
          /\ calls[i].op = "walk" /\ calls[i].value = FortyTwo
          /\ calls[i].at = NoDoc
          /\ Fulfilled(calls[i], Text(OK))
    /\ {calls[1].path, calls[2].path} = {Path_a_b, Path_a_c}

\* C5: two walks that run concurrently on a key without a document, for a.b and
\* for a.c, both succeed and leave the key holding a with both branches or with
\* only one of them, the branch of the other walk being lost.
C5_RaceOutcomes ==
    RacingWalks => store[calls[1].key] \in {Doc_ab42_ac42, Doc_ab42, Doc_ac42}

C5_Witness ==
    /\ RacingWalks
    /\ store[calls[1].key] \in {Doc_ab42, Doc_ac42}
    /\ \A i \in 1..2 : Len(Writes(calls[i])) = 1 /\ Writes(calls[i])[1].path = RootPath
\* A $_callCommand made with a name that is not in the supported set.
UnsupportedCall(c) == c.op = "call" /\ c.name \notin supportedCommands

\* C6: $_callCommand with a name that is not in the supported set fails with
\* 'Unsupported Command', sends nothing to the store, and no handle for the name
\* is created or cached.
C6_UnsupportedCommandRejected ==
    \A i \in 1..Len(calls) :
        UnsupportedCall(calls[i]) =>
            /\ Rejected(calls[i], Err(UnsupportedCommand))
            /\ calls[i].sent = <<>>
            /\ \A q \in 1..Len(queue) : queue[q].call # i
            /\ calls[i].name \notin DOMAIN internalCommands

C6_Witness ==
    \E i \in 1..Len(calls) :
        /\ UnsupportedCall(calls[i])
        /\ redis = "ready"
        /\ Rejected(calls[i], Err(UnsupportedCommand))

\* C7: arrpop(key, path, index) sends JSON.ARRPOP with the key, the canonical path
\* and the index when it is given; one element leaves the array and is returned.
C7_ArrpopDispatchesArrPop ==
    \A i \in 1..Len(calls) :
        calls[i].op = "arrpop" =>
            /\ \A k \in 1..Len(calls[i].sent) :
                   calls[i].sent[k] =
                       Request("JSON.ARRPOP", calls[i].key, pathMaker(calls[i].path),
                               calls[i].extra)
            /\ (/\ calls[i].pc = "done" /\ calls[i].sent # <<>>
                /\ calls[i].at = Doc_arr /\ Len(calls) = 1)
                   => /\ ArrLen(store[calls[i].key], <<Seg_arr>>) = 1
                      /\ calls[i].res.st = "fulfilled"
                      /\ calls[i].res.val \in {Json(One), Json(Two)}

\* C8: of a response that came without a failure, $_safetyJsonParse and
\* $_callCommand return a structured value as it is, a text that is valid JSON
\* decoded, a text that is not valid JSON as it is, and never throw.
C8_ResponseNormalization ==
    (Len(ret) = 1 /\ arg.t # "error") =>
        /\ ~ret[1].r.threw
        /\ arg.t = "struct" => ret[1].r.val = Json(arg.v)
        /\ arg.t = "int" => ret[1].r.val = Json(JInt(arg.s))
        /\ (arg.t = "text" /\ parse(arg.s).ok) => ret[1].r.val = Json(parse(arg.s).v)
        /\ (arg.t = "text" /\ ~parse(arg.s).ok) => ret[1].r.val = Text(arg.s)
        /\ arg = TextReply(OK) => ret[1].r.val = Text(OK)
        /\ arg = TextReply(<<"[", "1", "]">>) => ret[1].r.val = Json(JArr(<<One>>))
        /\ arg = TextReply(<<"{", "}">>) => ret[1].r.val = Json(JEmptyObj)
        /\ arg = TextReply(<<"{", "a", "}">>) => ret[1].r.val = Text(<<"{", "a", "}">>)

C8_Witness ==
    /\ Len(ret) = 1
    /\ arg = TextReply(<<"{", "a", "}">>)
    /\ ret[1] = Applied("$_callCommand", Returned(Text(<<"{", "a", "}">>)))

\* C9: $_pathMaker($_pathMaker(p)) = $_pathMaker(p) for every path p: a dotted
\* text, a bracket-form text, a list, with empty segments or without any.
C9_PathMakerIdempotent == Len(ret) = 2 => ret[2] = ret[1]

C9_Witness ==
    /\ Len(ret) = 2
    /\ arg = ListPath(<<StrSeg(<<"a">>), NumSeg(<<"0">>), StrSeg(<<>>)>>)
    /\ ret[1] = <<"[", "'", "a", "'", "]", "[", "0", "]">>
    /\ ret[2] = ret[1]

\* A segment that parses as a non-negative integer.
IsIndex(p) == Len(p.s) > 0 /\ AllIn(p.s, Digits)

\* The group of a segment as the format has it.
GroupOf(p) ==
    IF IsIndex(p) THEN <<"[">> \o p.s \o <<"]">> ELSE <<"[", "'">> \o p.s \o <<"'", "]">>

\* A list, or a dotted text, of segments none of which is empty.
PlainPath(p) ==
    /\ p.form = "text" => ~IsBracketForm(p.s)
    /\ \A i \in 1..Len(Segments(p)) : ~SegIsEmpty(Segments(p)[i])

\* C10: $_pathMaker of a list or a dotted text of non-empty segments is one bracket
\* group per segment in the order given, a segment being unquoted exactly when it
\* parses as a non-negative integer; of no segment at all it is '.'.
C10_OutputFormat ==
    (Len(ret) >= 1 /\ PlainPath(arg)) =>
        ret[1] = IF Len(Segments(arg)) = 0 THEN RootPath
                 ELSE Flatten([i \in 1..Len(Segments(arg)) |-> GroupOf(Segments(arg)[i])])

\* The position of the first empty segment of a list of segments, 0 when it has none.
FirstEmpty(segs) ==
    IF \E k \in 1..Len(segs) : SegIsEmpty(segs[k])
    THEN CHOOSE k \in 1..Len(segs) :
             SegIsEmpty(segs[k]) /\ \A j \in 1..(k - 1) : ~SegIsEmpty(segs[j])
    ELSE 0

\* A list, or a dotted text, that has an empty segment.
TruncatedPath(p) ==
    /\ p.form = "text" => ~IsBracketForm(p.s)
    /\ FirstEmpty(Segments(p)) > 0

\* C11: $_pathMaker of a path whose first empty segment is at position k is
\* $_pathMaker of the path cut at that segment (with it or without it), and the
\* root '.' when the first segment is the empty one.
C11_EmptySegmentTruncation ==
    (Len(ret) >= 1 /\ TruncatedPath(arg)) =>
        /\ ret[1] = pathMaker(ListPath(SubSeq(Segments(arg), 1, FirstEmpty(Segments(arg)))))
        /\ ret[1] = pathMaker(ListPath(SubSeq(Segments(arg), 1, FirstEmpty(Segments(arg)) - 1)))
        /\ FirstEmpty(Segments(arg)) = 1 => ret[1] = RootPath

C11_Witness ==
    /\ Len(ret) >= 1
    /\ arg = TextPath(<<"a", ".", ".", "1">>)
    /\ FirstEmpty(Segments(arg)) = 2
    /\ ret[1] = <<"[", "'", "a", "'", "]">>

\* The value an mget has for one key: the decoded value at the path in the
\* document of the key, null where the key or the path is missing.
ValueAt(doc, p) ==
    IF doc # NoDoc /\ doc # NonJson /\ HasPath(doc, p.segs)
    THEN Json(Subtree(doc, p.segs)) ELSE Json(JNull)

\* An mget of a list of keys that the store answered with the list of elements.
MgetAnswered(c) ==
    /\ c.op = "mget"
    /\ ~c.one
    /\ c.pc = "done"
    /\ Len(c.got) = 1
    /\ c.got[1].t = "array"

\* The commands that leave the store as it is.
ReadCommands == {"JSON.MGET", "JSON.GET", "JSON.TYPE", "JSON.ARRLEN"}

\* No call has sent a command that changes the store: the documents are those
\* the store held when the mget was answered.
StoreUntouched ==
    \A i \in 1..Len(calls) : \A j \in 1..Len(calls[i].sent) :
        calls[i].sent[j].cmd \in ReadCommands

\* C12: an mget of a list of keys and a path, once the store answered, returns a
\* mapping whose keys are exactly the keys of the list, each with the decoded
\* value at the path in the document of that key (the i-th element of the reply
\* for the i-th key), and null for a key or a path that is missing.
C12_MgetMapping ==
    \A i \in 1..Len(calls) :
        (MgetAnswered(calls[i]) /\ StoreUntouched) =>
            /\ calls[i].res.st = "fulfilled"
            /\ calls[i].res.val.kind = "object"
            /\ DOMAIN calls[i].res.val.o = {calls[i].keys[j] : j \in 1..Len(calls[i].keys)}
            /\ \A j \in 1..Len(calls[i].keys) :
                   calls[i].res.val.o[calls[i].keys[j]] =
                       ValueAt(store[calls[i].keys[j]],
                               StorePath(pathMaker(calls[i].path)))

C12_Witness ==
    \E i \in 1..Len(calls) :
        /\ MgetAnswered(calls[i])
        /\ StoreUntouched
        /\ calls[i].keys = <<"L", "K", "L">>
        /\ store["K"] = Doc_arr
        /\ store["L"] = Doc_a42
        /\ calls[i].res.val.o = [k \in {"K", "L"} |-> IF k = "K" THEN Json(JNull) ELSE Json(FortyTwo)]

\* The i-th element of the reply of the mget applied (i counts from 1).
MgetElemOf(i) == ElemAt(arg.reply.e, i - 1)

\* The element neither is a structured value nor decodes as JSON.
Undecodable(r) == r.t = "undefined" \/ (r.t = "text" /\ ~parse(r.s).ok)

\* What an element is in the mapping: as it is when it does not decode.
Normalized(r) ==
    CASE r.t = "undefined" -> Undefined
      [] r.t = "struct" -> Json(r.v)
      [] r.t = "text" /\ parse(r.s).ok -> Json(parse(r.s).v)
      [] OTHER -> Text(r.s)

\* The indexes of the keys whose value stays in the mapping: the last one of each key.
LastOfKey(j) == \A l \in (j + 1)..Len(arg.keys) : arg.keys[l] # arg.keys[j]

\* C13 (amended): mget fails as a whole, with the failure of the dispatch and no
\* mapping, when the dispatch fails.  An element of the reply that does not
\* decode does not fail the call: the mapping is returned with that element as
\* it is (undefined when the reply has no element for the key) beside the
\* decoded values of the other keys.
C13_MgetFailsOnDispatchOnly ==
    Len(ret) = 1 =>
        /\ arg.reply.t = "error" => ret[1].r = Thrown(Err(arg.reply.m))
        /\ arg.reply.t = "array" =>
            /\ ~ret[1].r.threw
            /\ ret[1].r.val.kind = "object"
            /\ DOMAIN ret[1].r.val.o = {arg.keys[j] : j \in 1..Len(arg.keys)}
            /\ \A j \in 1..Len(arg.keys) :
                   LastOfKey(j) => ret[1].r.val.o[arg.keys[j]] = Normalized(MgetElemOf(j))

C13_Witness ==
    /\ Len(ret) = 1
    /\ arg.keys = <<"K", "L">>
    /\ arg.reply = ArrayReply(<<TextReply(<<"{", "a">>), TextReply(<<"4", "2">>)>>)
    /\ ret[1].r = Returned(Obj([k \in {"K", "L"} |->
                                   IF k = "K" THEN Text(<<"{", "a">>) ELSE Json(FortyTwo)]))

\* C13 as stated: mget fails as a whole whenever the dispatch fails or an
\* element of the reply for one of the keys fails to decode, and a mapping that
\* is returned holds a decoded value for every key.
C13_MgetFailsAsAWhole ==
    Len(ret) = 1 =>
        /\ (\/ arg.reply.t = "error"
            \/ \E j \in 1..Len(arg.keys) : Undecodable(MgetElemOf(j))) => ret[1].r.threw
        /\ ~ret[1].r.threw =>
               \A k \in DOMAIN ret[1].r.val.o : ret[1].r.val.o[k].kind = "json"

\* The call sent requests and the store has answered every one of them.
AllAnswered(c) == c.sent # <<>> /\ Len(c.got) = Len(c.sent)

\* C14: every public call, whatever its arguments (set without opts included),
\* is settled once the store has answered each request it sent: its promise is
\* fulfilled with a value or rejected with one failure, and is never left
\* pending for ever.  A call runs without a pause from one answer to its next
\* request, so a call all of whose requests are answered has run to its end.
C14_EveryCallSettles ==
    \A i \in 1..Len(calls) :
        AllAnswered(calls[i]) => calls[i].res.st \in {"fulfilled", "rejected"}

\* The handles of the cache are those made so far, one for each name in it.
OneHandlePerName ==
    {internalCommands[n] : n \in DOMAIN internalCommands}
        = 1..Cardinality(DOMAIN internalCommands)

\* A step keeps every entry of the cache, with the handle it had.
EntriesKept ==
    \A n \in DOMAIN internalCommands :
        n \in DOMAIN internalCommands' /\ internalCommands'[n] = internalCommands[n]

\* C15: whatever the interleaving of the calls made on one client, the cache
\* $internalCommands holds entries for supported names only, a handle is made at
\* most once for a name (every handle made is in the cache, under one name), the
\* cache never holds more entries than there are supported names, and no step
\* removes an entry or replaces its handle.
C15_HandleCache ==
    /\ [](/\ DOMAIN internalCommands \subseteq supportedCommands
          /\ OneHandlePerName
          /\ Cardinality(DOMAIN internalCommands) <= Cardinality(supportedCommands))
    /\ [][EntriesKept]_vars

\* Two calls whose requests are both in flight used the same name, and the
\* cache holds the one handle made for it beside the handle of another name.
C15_Witness ==
    /\ Len(calls) = 2
    /\ Len(queue) = 2
    /\ queue[1].req.cmd = queue[2].req.cmd
    /\ \E i \in 1..2 : Len(calls[i].sent) = 2
    /\ Cardinality(DOMAIN internalCommands) = 2
    /\ OneHandlePerName

\* The call ran the walk of lib: it sent a probe.
RanWalk(c) == variant = "lib" /\ c.op \in {"walk", "set"} /\ Probes(c) # <<>>

\* The place of the first probe among the requests of the call.
FirstProbe(c) ==
    CHOOSE k \in 1..Len(c.sent) :
        c.sent[k].cmd = "JSON.TYPE" /\ \A j \in 1..(k - 1) : c.sent[j].cmd # "JSON.TYPE"

\* The writes the call sent from its first probe on: those of the walk.
CorrectiveWrites(c) ==
    SelectSeq(SubSeq(c.sent, FirstProbe(c), Len(c.sent)), LAMBDA q : q.cmd = "JSON.SET")

\* A probe of the call was answered with a failure.
ProbeFailed(c) ==
    \E k \in 1..Len(c.got) : c.sent[k].cmd = "JSON.TYPE" /\ c.got[k].t = "error"

LastReply(c) == c.got[Len(c.got)]

\* C16: a run of the walk of lib that no failing probe aborted issues exactly
\* one corrective JSON.SET, with {recursive: false}; nothing is sent after it,
\* neither probe nor write; the call ends with the result of that write, and
\* with its failure when the write fails.
C16_OneCorrectiveWrite ==
    \A i \in 1..Len(calls) :
        (RanWalk(calls[i]) /\ ~ProbeFailed(calls[i])) =>
            /\ Len(CorrectiveWrites(calls[i])) <= 1
            /\ Len(CorrectiveWrites(calls[i])) = 1 =>
                   /\ calls[i].sent[Len(calls[i].sent)].cmd = "JSON.SET"
                   /\ calls[i].frame.opts = "false"
            /\ calls[i].pc = "done" =>
                   /\ Len(CorrectiveWrites(calls[i])) = 1
                   /\ Len(calls[i].got) = Len(calls[i].sent)
                   /\ LastReply(calls[i]).t \in {"text", "error"}
                   /\ LastReply(calls[i]).t = "text" =>
                          Fulfilled(calls[i], Text(LastReply(calls[i]).s))
                   /\ LastReply(calls[i]).t = "error" =>
                          Rejected(calls[i], Err(LastReply(calls[i]).m))

\* A walk whose corrective write failed.
C16_Witness ==
    \E i \in 1..Len(calls) :
        /\ RanWalk(calls[i]) /\ ~ProbeFailed(calls[i])
        /\ calls[i].pc = "done"
        /\ Len(CorrectiveWrites(calls[i])) = 1
        /\ LastReply(calls[i]).t = "error"
        /\ Rejected(calls[i], Err(LastReply(calls[i]).m))

\* A walk of lib for [a,b,c] and 42, all of whose probes were answered null,
\* the probe of the root included, and that has written.
RootWalk(c) ==
    /\ variant = "lib"
    /\ c.op = "walk" /\ c.path = Path_abc /\ c.value = FortyTwo
    /\ Len(Probes(c)) = Len(Segments(c.path))
    /\ c.sent[Len(Segments(c.path))].path = RootPath
    /\ Len(c.got) >= Len(Segments(c.path))
    /\ \A k \in 1..Len(Segments(c.path)) : c.got[k] = NullReply
    /\ Len(c.sent) > Len(Segments(c.path))

\* {"a":{"b":{"c":42}}}
Json_abc42 == stringify(Doc_abc42)

\* C17: when every probe of the walk is answered null, the probe of the root
\* included, the corrective write is made at the root path '.' and its value is
\* the original value nested under all the segments of the path, in their order.
C17_RootEdgeCase ==
    \A i \in 1..Len(calls) :
        RootWalk(calls[i]) =>
            /\ Writes(calls[i]) =
                   <<Request("JSON.SET", calls[i].key, RootPath, <<Json_abc42>>)>>
            /\ calls[i].paths = <<>>
            /\ calls[i].setValue = Doc_abc42

C17_Witness ==
    /\ Len(calls) = 1
    /\ RootWalk(calls[1])
    /\ Fulfilled(calls[1], Text(OK))
    /\ store["K"] = Doc_abc42
    /\ Json_abc42 = <<"{", "\"", "a", "\"", ":", "{", "\"", "b", "\"", ":">> \o Json_c42 \o <<"}", "}">>

\* A run of the walk of lib called on its own, and the number of segments of its path.
WalkCall(c) == variant = "lib" /\ c.op = "walk"

SegmentCount(c) == Len(Segments(c.path))

\* The first n probes of the call were all answered null.
AllNull(c, n) == Len(c.got) >= n /\ \A k \in 1..n : c.got[k] = NullReply

\* C18: for a path of n segments the loop of the walk runs at most n iterations
\* and sends at most n JSON.TYPE probes, whatever the probes are answered; when
\* no probe finds a prefix that exists, the walk ends at the root: after the
\* n-th null it probes no more and writes at '.'.
C18_WalkTerminates ==
    \A i \in 1..Len(calls) :
        WalkCall(calls[i]) =>
            /\ calls[i].probes <= SegmentCount(calls[i])
            /\ Len(Probes(calls[i])) <= SegmentCount(calls[i])
            /\ AllNull(calls[i], SegmentCount(calls[i])) =>
                   /\ Len(calls[i].sent) = SegmentCount(calls[i]) + 1
                   /\ calls[i].sent[Len(calls[i].sent)].cmd = "JSON.SET"
                   /\ calls[i].sent[Len(calls[i].sent)].path = RootPath

C18_Witness ==
    \E i \in 1..Len(calls) :
        /\ WalkCall(calls[i])
        /\ SegmentCount(calls[i]) = 3
        /\ calls[i].probes = 3
        /\ AllNull(calls[i], 3)
        /\ calls[i].pc = "done"

RECURSIVE Nested(_, _)
\* The value v under one single-key object for each of the segments, the first outermost.
Nested(segs, v) == IF Len(segs) = 0 THEN v ELSE Wrap(segs[1].s, Nested(Tail(segs), v))

\* The probes of the call that were answered null: the iterations that went on.
NullProbes(c) == {k \in 1..Len(c.got) : c.sent[k].cmd = "JSON.TYPE" /\ c.got[k] = NullReply}

\* C19: at every point of a walk of lib, and at its corrective write, the list
\* paths holds the first segments of the original path, the value being built
\* is the original value under one single-key object for each of the other
\* segments, in their order, and one segment has gone from the list to the
\* value for each iteration that went on.
C19_WalkInvariant ==
    \A i \in 1..Len(calls) :
        (WalkCall(calls[i]) /\ calls[i].sent # <<>>) =>
            /\ Len(calls[i].paths) <= SegmentCount(calls[i])
            /\ calls[i].paths = SubSeq(Segments(calls[i].path), 1, Len(calls[i].paths))
            /\ calls[i].setValue =
                   Nested(SubSeq(Segments(calls[i].path), Len(calls[i].paths) + 1,
                                 SegmentCount(calls[i])),
                          calls[i].value)
            /\ SegmentCount(calls[i]) - Len(calls[i].paths) = Cardinality(NullProbes(calls[i]))
            /\ Writes(calls[i]) # <<>> =>
                   Writes(calls[i])[1] =
                       Request("JSON.SET", calls[i].key,
                               pathMaker(ListPath(calls[i].paths)),
                               <<stringify(calls[i].setValue)>>)

\* The walk for [a,b,c] found a after one null: it writes {c:42} with [a,b] left.
C19_Witness ==
    \E i \in 1..Len(calls) :
        /\ WalkCall(calls[i])
        /\ calls[i].path = Path_abc
        /\ calls[i].paths = <<StrSeg(Seg_a), StrSeg(Seg_b)>>
        /\ calls[i].setValue = Wrap(Seg_c, FortyTwo)
        /\ Cardinality(NullProbes(calls[i])) = 1
        /\ Len(Writes(calls[i])) = 1
        /\ Writes(calls[i])[1].extra = <<Json_c42>>

\* C20: in one run of the walk of lib the k-th probe targets the first n-k
\* segments of the path (n-1, n-2, ... segments); a request is sent only when
\* every request sent before it has been answered, so each probe follows the
\* answer to the probe before it and the corrective write follows the answer to
\* the last probe; and after a probe answered with a type that is not null no
\* probe is sent.
C20_ChainOrdering ==
    \A i \in 1..Len(calls) :
        WalkCall(calls[i]) =>
            /\ \A k \in 1..Len(Probes(calls[i])) :
                   /\ k <= SegmentCount(calls[i])
                   /\ Probes(calls[i])[k].path =
                          pathMaker(ListPath(SubSeq(Segments(calls[i].path), 1,
                                                    SegmentCount(calls[i]) - k)))
            /\ Len(calls[i].sent) <= Len(calls[i].got) + 1
            /\ \A j \in 1..Len(calls[i].got) :
                   (calls[i].sent[j].cmd = "JSON.TYPE" /\ calls[i].got[j] # NullReply) =>
                       \A l \in (j + 1)..Len(calls[i].sent) : calls[i].sent[l].cmd # "JSON.TYPE"
            /\ \A j \in 1..Len(calls[i].sent) :
                   calls[i].sent[j].cmd = "JSON.SET" =>
                       /\ j = Len(calls[i].sent)
                       /\ j = Len(Probes(calls[i])) + 1
                       /\ Len(calls[i].got) >= j - 1

\* The walk for [a,b,c] probed a.b, then a, found a and sent its write, while
\* the requests of another call were in flight between them.
C20_Witness ==
    \E i \in 1..Len(calls) :
        /\ WalkCall(calls[i])
        /\ Len(calls) = 2
        /\ calls[i].path = Path_abc
        /\ Len(calls[i].sent) = 3
        /\ Len(calls[i].got) = 2
        /\ Len(Probes(calls[i])) = 2
        /\ Probes(calls[i])[1].path = Arg_a_b
        /\ Probes(calls[i])[2].path = Arg_a
        /\ calls[i].got[1] = NullReply
        /\ calls[i].got[2] = TextReply(<<"o", "b", "j", "e", "c", "t">>)
        /\ calls[i].sent[3].cmd = "JSON.SET"

\* A call of set or of the walk whose path is a list of segments.
ListPathCall(c) == c.op \in {"set", "walk"} /\ c.path.form = "list"

\* C21: a path is never modified by the client: after any call of set (with or
\* without auto-create) or of $_findAndCreateParentObject on a path given as a
\* list of segments, the caller's list holds the same segments in the same
\* order as before the call.
C21_PathNeverModified ==
    \A i \in 1..Len(calls) :
        (ListPathCall(calls[i]) /\ calls[i].pc = "done")
            => calls[i].list = calls[i].path.l

\* The path the call was made for, as the store reads its normalized form.
TargetOf(c) == StorePath(pathMaker(c.path)).segs

\* The nodes of the document that are neither at nor below the path.
Outside(doc, segs) == {n \in doc : ~IsPrefix(segs, n.p)}

\* A run of the walk of lib, made alone, that ended with success.
SuccessfulWalk(c) ==
    /\ variant = "lib"
    /\ c.op = "walk"
    /\ Len(calls) = 1
    /\ Fulfilled(c, Text(OK))
    /\ Len(Writes(c)) = 1

\* The path of the corrective write, as the store reads it.
CorrectivePath(c) == StorePath(Writes(c)[1].path).segs

\* C22: with no other writer on the key, a successful run of
\* $_findAndCreateParentObject(key, path, value) of lib leaves every location of
\* the document the key held before that is not at or below the normalized target
\* path with the value it had, and its corrective write is aimed at a path that
\* did not exist when it was probed, or at the target path itself.
C22_SiblingPreservation ==
    \A i \in 1..Len(calls) :
        SuccessfulWalk(calls[i]) =>
            /\ Outside(calls[i].at, TargetOf(calls[i])) \subseteq store[calls[i].key]
            /\ \/ CorrectivePath(calls[i]) = TargetOf(calls[i])
               \/ ~HasPath(calls[i].at, CorrectivePath(calls[i]))

\* A set of part_000 or part_002 with {recursive: true}, made alone, whose direct
\* write the store failed for a missing ancestor and whose walk then succeeded.
WalkedSet(c) ==
    /\ variant \in PromiseVariants
    /\ c.op = "set" /\ c.opts = "true"
    /\ Len(calls) = 1
    /\ FirstFailed(c, {NonTerminalPhrase, AtRootPhrase, Level0Phrase})
    /\ c.pc = "done" /\ c.res.st = "fulfilled"

\* The path the set was made for, as the store reads the path argument of its
\* direct write.
SetTargetOf(c) == StorePath(c.sent[1].path).segs

\* C23: in part_002 and part_000, with no other writer, a set with
\* {recursive: true} whose direct write fails for a missing ancestor and whose
\* walk succeeds leaves every location of the document the key held before that
\* is not at or below the target path unchanged (K holding {a:{x:1}} and a write
\* of 42 to a.b.c end with K holding {a:{x:1,b:{c:42}}}).
C23_SiblingPreservationEarlier ==
    \A i \in 1..Len(calls) :
        WalkedSet(calls[i]) =>
            Outside(calls[i].at, SetTargetOf(calls[i])) \subseteq store[calls[i].key]

\* The path a.b in the three forms: dotted text, list of segments, bracket-form text.
Forms_a_b == {Path_a_b, Path_ab, TextPath(Arg_a_b)}

RECURSIVE Replayed(_, _)
\* The call once it has received the replies, one after the other.
Replayed(call, replies) ==
    IF replies = <<>> \/ call.pc = "done" THEN call
    ELSE Replayed(Resume([call EXCEPT !.got = Append(@, Head(replies))],
                         Head(replies)).call,
                  Tail(replies))

\* The walk made for the list [a, b] in place of the call, given the replies the
\* call has received so far.
ListWalk(c) ==
    Replayed(findAndCreateParentObject(
                 NewCall("walk", c.key, Path_ab, c.value, "undefined", "", <<>>),
                 Path_ab, c.value).call,
             c.got)

\* A walk of lib for a.b in one of its forms, on a connection that is ready.
FormWalk(c) ==
    /\ variant = "lib"
    /\ c.op = "walk"
    /\ c.path \in Forms_a_b
    /\ c.sent # <<>>

\* C24: $_findAndCreateParentObject of lib sends the same probes in the same
\* order and the same corrective write (same path, same value) whether the path
\* is given as the dotted text a.b, as the list [a, b] or as the bracket-form
\* text ['a']['b']: at every point of the run the requests sent are those the
\* walk for the list sends on the same replies.
C24_PathFormIndependence ==
    \A i \in 1..Len(calls) :
        FormWalk(calls[i]) => calls[i].sent = ListWalk(calls[i]).sent

\* An mget of one key that is not in a list, which the store answered with the
\* list of one element.
OneKeyMget(c) ==
    /\ c.op = "mget"
    /\ c.one
    /\ c.pc = "done"
    /\ Len(c.got) = 1
    /\ c.got[1].t = "array"

\* C25: mget called with a single key that is not a list returns, once the
\* store answered, a mapping with exactly one entry, whose name is that key and
\* whose value is the decoded value read for it (the value at the path in the
\* document of the key, null where the key or the path is missing).
C25_SingleKeyMget ==
    \A i \in 1..Len(calls) :
        (OneKeyMget(calls[i]) /\ StoreUntouched) =>
            /\ calls[i].res.st = "fulfilled"
            /\ calls[i].res.val.kind = "object"
            /\ DOMAIN calls[i].res.val.o = {calls[i].key}
            /\ calls[i].res.val.o[calls[i].key] =
                   ValueAt(store[calls[i].key], StorePath(pathMaker(calls[i].path)))

====
